---------------------------- MODULE Spec2Model ----------------------------
(***************************************************************************)
(* Model of the RF link-budget router of satcom-app                        *)
(* (backend/app/routers/rf.py): the DVB-S2 MODCOD table, the utility       *)
(* functions and the POST /rf/cni handler compute_cni.                     *)
(*                                                                         *)
(* Numbers.  Every dB quantity (dB, dBW, dB/K, dBHz) is an integer number  *)
(* of hundredths of a dB, the resolution of the MODCOD table.  A linear    *)
(* ratio is a decimal floating-point number [m, e] = m * 10^e with a       *)
(* three-digit mantissa m in 100..999 (zero is [0, 0]); every operation    *)
(* that produces one rounds to the nearest representable value, as the     *)
(* float64 operations of the program do on their own, finer, grid.         *)
(***************************************************************************)
EXTENDS Integers, Sequences, FiniteSets

VARIABLES
    DVB_S2_MODCODS,     \* the module-level MODCOD list of rf.py
    pc,                 \* pc[r]: position of request slot r
    req,                \* req[r]: the JSON body posted in slot r
    frame,              \* frame[r]: locals of compute_cni when it returned
    resp,               \* resp[r]: the HTTP response of slot r
    available_esn0_db,  \* argument of a direct pick_best_modcod call
    best,               \* its return value
    pick_pc             \* position of the direct call

vars == <<DVB_S2_MODCODS, pc, req, frame, resp, available_esn0_db, best, pick_pc>>

-----------------------------------------------------------------------------
(* Bounds of the model *)

\* number of request slots that may be in flight together
MaxRequests == 2

\* direct calls of pick_best_modcod use every threshold of the table and the
\* values up to Delta hundredths of a dB around it
Delta == 1

-----------------------------------------------------------------------------
(* Optional values: None is the empty sequence, a value x is <<x>> *)

None == << >>

Some(x) == <<x>>

-----------------------------------------------------------------------------
(* The MODCOD table, rf.py lines 95-128; thresholds in hundredths of a dB *)

Entry(n, t) == [name |-> n, required_esn0_db |-> t]

ModcodTable ==
    << Entry("QPSK 1/4", -235),   Entry("QPSK 1/3", -124),
       Entry("QPSK 2/5", -30),    Entry("QPSK 1/2", 100),
       Entry("QPSK 3/5", 223),    Entry("QPSK 2/3", 310),
       Entry("QPSK 3/4", 403),    Entry("QPSK 4/5", 468),
       Entry("QPSK 5/6", 518),    Entry("QPSK 8/9", 620),
       Entry("QPSK 9/10", 642),
       Entry("8PSK 3/5", 550),    Entry("8PSK 2/3", 662),
       Entry("8PSK 3/4", 791),    Entry("8PSK 5/6", 935),
       Entry("8PSK 8/9", 1069),   Entry("8PSK 9/10", 1098),
       Entry("16APSK 2/3", 897),  Entry("16APSK 3/4", 1021),
       Entry("16APSK 4/5", 1103), Entry("16APSK 5/6", 1161),
       Entry("16APSK 8/9", 1289), Entry("16APSK 9/10", 1313),
       Entry("32APSK 3/4", 1273), Entry("32APSK 4/5", 1364),
       Entry("32APSK 5/6", 1428), Entry("32APSK 8/9", 1569),
       Entry("32APSK 9/10", 1605) >>

-----------------------------------------------------------------------------
(* pick_best_modcod, rf.py lines 199-214 *)

ModcodInfo(n, t, margin) ==
    [name |-> n, required_esn0_db |-> t, margin_db |-> margin]

\* line 208 with > for >=: an entry whose threshold is met exactly is skipped
QualifiesStrict(avail, required) == avail > required

\* line 208 with the comparison turned round
QualifiesFlipped(avail, required) == avail <= required

\* the test of line 208
Qualifies(avail, required) == avail >= required

\* one iteration of the loop of lines 207-213: the new value of `best`
ScanStep(b, entry, avail) ==
    IF Qualifies(avail, entry.required_esn0_db)
    THEN Some(ModcodInfo(entry.name, entry.required_esn0_db,
                         avail - entry.required_esn0_db))
    ELSE b

\* the loop of lines 207-213 from entry i on, with `best` = b so far
RECURSIVE Scan(_, _, _)
Scan(i, b, avail) ==
    IF i > Len(DVB_S2_MODCODS) THEN b
    ELSE Scan(i + 1, ScanStep(b, DVB_S2_MODCODS[i], avail), avail)

pick_best_modcod(avail) == Scan(1, None, avail)

-----------------------------------------------------------------------------
(* float64 arithmetic on linear ratios: [m, e] = m * 10^e, 100 <= m <= 999 *)

Zero == [m |-> 0, e |-> 0]

TenTo == <<1, 10, 100, 1000, 10000, 100000>>

\* the nearest three-digit value to n * 10^e, n >= 0
RECURSIVE Normalize(_, _)
Normalize(n, e) ==
    IF n = 0 THEN Zero
    ELSE IF n < 100 THEN Normalize(n * 10, e - 1)
    ELSE IF n < 1000 THEN [m |-> n, e |-> e]
    ELSE IF n < 10000
         THEN LET q == (n + 5) \div 10
              IN  IF q = 1000 THEN [m |-> 100, e |-> e + 2]
                  ELSE [m |-> q, e |-> e + 1]
    ELSE Normalize(n \div 10, e + 1)

\* a positive number of the request (GHz, Hz, km) as a float
FromInt(n) == Normalize(n, 0)

\* 1.0 / x, x > 0
Recip(x) == Normalize(10000000 \div x.m, 0 - x.e - 7)

\* x + y, x > 0 and y > 0: the smaller operand is absorbed when it lies
\* more than five decimal orders below the larger
Add(x, y) ==
    LET hi == IF x.e >= y.e THEN x ELSE y
        lo == IF x.e >= y.e THEN y ELSE x
        d  == hi.e - lo.e
    IN  IF d > 5 THEN hi ELSE Normalize(hi.m * TenTo[d + 1] + lo.m, lo.e)

\* 10^(a/10), 10^(b/100) and 10^(c/1000) for a digit a, b, c, times 10^4
PowTenths     == <<10000, 12589, 15849, 19953, 25119, 31623, 39811, 50119, 63096, 79433>>
PowHundredths == <<10000, 10233, 10471, 10715, 10965, 11220, 11482, 11749, 12023, 12303>>
PowThousandths == <<10000, 10023, 10046, 10069, 10093, 10116, 10139, 10162, 10186, 10209>>

\* 10.0 ** (t / 1000): t is an exponent in thousandths, so that
\* 10.0 ** (x_db / 10.0) is Pow10 of x_db in hundredths of a dB
Pow10(t) ==
    LET q == t \div 1000
        r == t % 1000
        a == r \div 100
        b == (r \div 10) % 10
        c == r % 10
        ab == (PowTenths[a + 1] * PowHundredths[b + 1] + 5000) \div 10000
        p  == (ab * PowThousandths[c + 1] + 5000) \div 10000
    IN  Normalize(p, q - 4)

\* the largest digit d with tab[d + 1] <= v, tab ascending and tab[1] <= v
DigitBelow(tab, v) == Cardinality({ k \in 1..9 : tab[k + 1] <= v })

\* 1000 * log10(m / 100) for a mantissa m, to the nearest integer
LogMantissa(m) ==
    LET v0 == m * 100
        a  == DigitBelow(PowTenths, v0)
        v1 == (v0 * 10000) \div PowTenths[a + 1]
        b  == DigitBelow(PowHundredths, v1)
        v2 == (v1 * 10000) \div PowHundredths[b + 1]
        c  == DigitBelow(PowThousandths, v2)
        up == IF c < 9 THEN PowThousandths[c + 2] ELSE PowHundredths[2]
        c1 == IF v2 - PowThousandths[c + 1] >= up - v2 THEN c + 1 ELSE c
    IN  100 * a + 10 * b + c1

\* 1000 * log10(x), x > 0: 10.0 * log10(x) in hundredths of a dB
LogFloat(x) == 1000 * (x.e + 2) + LogMantissa(x.m)

-----------------------------------------------------------------------------
(* Results of calls that may raise *)

Return(v) == [error |-> "", value |-> v]

Raise(exc) == [error |-> exc, value |-> 0]

\* math.log10 of a number of the request: ValueError unless it is positive
log10(n) == IF n <= 0 THEN Raise("ValueError") ELSE Return(LogFloat(FromInt(n)))

-----------------------------------------------------------------------------
(* Utility functions, rf.py lines 133-196 *)

re_km == 6378

rs_km == 42164

\* cos(radians(d)) times 1000, for the angles the model uses
CosDeg(d) ==
    LET a == IF d < 0 THEN 0 - d ELSE d
    IN  CASE a = 0 -> 1000 [] a = 30 -> 866 [] a = 45 -> 707
          [] a = 60 -> 500 [] a = 90 -> 0

\* the integer nearest to the square root of n, found between lo and hi
RECURSIVE SqrtBetween(_, _, _)
SqrtBetween(n, lo, hi) ==
    IF hi - lo <= 1
    THEN IF n - lo * lo > hi * hi - n THEN hi ELSE lo
    ELSE LET mid == (lo + hi) \div 2
         IN  IF mid * mid <= n THEN SqrtBetween(n, mid, hi)
             ELSE SqrtBetween(n, lo, mid)

Sqrt(n) == SqrtBetween(n, 0, 46340)

Max(a, b) == IF a >= b THEN a ELSE b

Min(a, b) == IF a <= b THEN a ELSE b

\* lines 133-151; the result in km
geo_slant_range_km(ground_lat_deg, ground_lon_deg, sat_lon_deg) ==
    LET cos_psi == (CosDeg(ground_lat_deg) * CosDeg(ground_lon_deg - sat_lon_deg)
                        + 500) \div 1000
        r2 == re_km * re_km + rs_km * rs_km
                  - ((2 * re_km * rs_km) \div 1000) * cos_psi
    IN  Sqrt(Max(r2, 0))

\* lines 154-160
fspl_db(distance_km, freq_ghz) ==
    LET ld == log10(distance_km)
        lf == log10(freq_ghz)
    IN  IF ld.error # "" THEN ld
        ELSE IF lf.error # "" THEN lf
        ELSE Return(9245 + 2 * ld.value + 2 * lf.value)

\* lines 163-175
cn0_dbhz_from_eirp_gt(eirp_dbw, gt_dbk, fspl_db_val, extra_losses_db) ==
    eirp_dbw + gt_dbk - fspl_db_val - extra_losses_db + 22860

\* lines 178-182
cn_db_from_cn0(cn0_dbhz, noise_bw_hz) ==
    LET lb == log10(noise_bw_hz)
    IN  IF lb.error # "" THEN lb ELSE Return(cn0_dbhz - lb.value)

\* 10.0 ** x raises OverflowError above the float64 range (x > 308.25)
PowOverflows(cn_db) == cn_db > 308254

\* ... and gives 0.0 below it (x < -323.6)
PowIsZero(cn_db) == cn_db < 0 - 323607

\* 1.0 / (10.0 ** x) is inf when 10.0 ** x is subnormal (x < -308.25)
RecipIsInf(cn_db) == cn_db < 0 - 308254

\* line 195 without the reciprocals: the linear ratios are added
ReciprocalSumDirect(cn1_lin, cn2_lin) == Add(cn1_lin, cn2_lin)

\* line 195
ReciprocalSum(cn1_lin, cn2_lin) == Recip(Add(Recip(cn1_lin), Recip(cn2_lin)))

\* lines 185-196
combine_cn_linear(cn1_db, cn2_db) ==
    IF PowOverflows(cn1_db) \/ PowOverflows(cn2_db) THEN Raise("OverflowError")
    ELSE IF PowIsZero(cn1_db) \/ PowIsZero(cn2_db) THEN Raise("ZeroDivisionError")
    ELSE IF RecipIsInf(cn1_db) \/ RecipIsInf(cn2_db) THEN Raise("ValueError")
    ELSE Return(LogFloat(ReciprocalSum(Pow10(cn1_db), Pow10(cn2_db))))

-----------------------------------------------------------------------------
(* Request bodies.  A JSON number is Some(n); a key that is absent is None *)

LocationJson(lat, lon) ==
    [latitude_deg |-> Some(lat), longitude_deg |-> Some(lon)]

\* what a scenario p posts: the keys of CniRequest, rf.py lines 12-73
BodyOf(p) ==
    [user1 |-> [location |-> LocationJson(p.lat1, p.lon1),
                eirp_dbw |-> Some(p.eirp1),
                gt_dbk   |-> Some(p.gt1),
                npr_db   |-> p.npr1],
     user2 |-> [location |-> LocationJson(p.lat2, p.lon2),
                eirp_dbw |-> Some(p.eirp2),
                gt_dbk   |-> Some(p.gt2),
                npr_db   |-> p.npr2],
     geometry |-> [satellite_longitude_deg |-> Some(p.sat_lon)],
     rf |-> [uplink_gt_dbk           |-> Some(p.sat_gt),
             downlink_eirp_dbw       |-> Some(p.sat_eirp),
             uplink_impl_margin_db   |-> p.up_margin,
             downlink_impl_margin_db |-> p.down_margin,
             npr_db                  |-> p.sat_npr],
     freqs |-> [uplink_freq_ghz    |-> Some(p.f_up),
                downlink_freq_ghz  |-> Some(p.f_down),
                noise_bandwidth_hz |-> p.bw],
     modcod_margin_db |-> p.margin]

\* the end-to-end scenario of the specification: both terminals at the
\* sub-satellite point, 14 / 12 GHz, 1 MHz, every default left out
BaseScenario ==
    [lat1 |-> 0, lon1 |-> 0, eirp1 |-> 5000, gt1 |-> 0, npr1 |-> None,
     lat2 |-> 0, lon2 |-> 0, eirp2 |-> 0, gt2 |-> 1500, npr2 |-> None,
     sat_lon |-> 0, sat_gt |-> 0 - 500, sat_eirp |-> 4500,
     up_margin |-> None, down_margin |-> None, sat_npr |-> None,
     f_up |-> 14, f_down |-> 12, bw |-> Some(1000000), margin |-> None]

LinkScenarios ==
    { BaseScenario,
      \* another geometry, explicit margins and interference figures
      [BaseScenario EXCEPT !.lat1 = 60, !.lon1 = 60, !.lat2 = 30,
                           !.up_margin = Some(50), !.down_margin = Some(100),
                           !.npr1 = Some(2500), !.sat_npr = Some(2000),
                           !.margin = Some(0)],
      \* non-positive frequencies and bandwidth
      [BaseScenario EXCEPT !.f_up = 0],
      [BaseScenario EXCEPT !.f_down = 0 - 12],
      [BaseScenario EXCEPT !.bw = Some(0)],
      \* the bandwidth key is missing
      [BaseScenario EXCEPT !.bw = None],
      \* design margins that leave exactly -2.35 dB, and 0.01 dB less
      [BaseScenario EXCEPT !.margin = Some(941)],
      [BaseScenario EXCEPT !.margin = Some(942)],
      \* a weak uplink, far below the interference figure
      [BaseScenario EXCEPT !.eirp1 = 0 - 2900],
      \* interference figures outside the range of 10.0 ** x
      [BaseScenario EXCEPT !.npr1 = Some(0 - 400000)],
      [BaseScenario EXCEPT !.npr1 = Some(0 - 310000)],
      [BaseScenario EXCEPT !.sat_npr = Some(400000)] }

\* the fields compute_cni never reads, changed one at a time and together
UnusedFieldScenarios ==
    { [BaseScenario EXCEPT !.gt1 = 300],
      [BaseScenario EXCEPT !.eirp2 = 4000],
      [BaseScenario EXCEPT !.npr2 = Some(1000)],
      [BaseScenario EXCEPT !.f_up = 0, !.gt1 = 300, !.eirp2 = 4000,
                           !.npr2 = Some(1000)] }

Scenarios == LinkScenarios \cup UnusedFieldScenarios

Bodies == { BodyOf(p) : p \in Scenarios }

-----------------------------------------------------------------------------
(* Request validation: the pydantic models of rf.py lines 12-73 *)

\* Field(...): the key is required
Required(x) == x # None

\* Field(default, ...): the default stands in for an absent key
OrDefault(x, default) == IF x = None THEN default ELSE x[1]

ValidTerminal(j) ==
    /\ Required(j.location.latitude_deg)
    /\ Required(j.location.longitude_deg)
    /\ Required(j.eirp_dbw)
    /\ Required(j.gt_dbk)

ValidBody(j) ==
    /\ ValidTerminal(j.user1)
    /\ ValidTerminal(j.user2)
    /\ Required(j.geometry.satellite_longitude_deg)
    /\ Required(j.rf.uplink_gt_dbk)
    /\ Required(j.rf.downlink_eirp_dbw)
    /\ Required(j.freqs.uplink_freq_ghz)
    /\ Required(j.freqs.downlink_freq_ghz)
    /\ Required(j.freqs.noise_bandwidth_hz)

GroundTerminal(j) ==
    [location |-> [latitude_deg  |-> j.location.latitude_deg[1],
                   longitude_deg |-> j.location.longitude_deg[1]],
     eirp_dbw |-> j.eirp_dbw[1],
     gt_dbk   |-> j.gt_dbk[1],
     npr_db   |-> OrDefault(j.npr_db, 10000)]

CniRequest(j) ==
    [user1 |-> GroundTerminal(j.user1),
     user2 |-> GroundTerminal(j.user2),
     geometry |-> [satellite_longitude_deg |-> j.geometry.satellite_longitude_deg[1]],
     rf |-> [uplink_gt_dbk           |-> j.rf.uplink_gt_dbk[1],
             downlink_eirp_dbw       |-> j.rf.downlink_eirp_dbw[1],
             uplink_impl_margin_db   |-> OrDefault(j.rf.uplink_impl_margin_db, 0),
             downlink_impl_margin_db |-> OrDefault(j.rf.downlink_impl_margin_db, 0),
             npr_db                  |-> OrDefault(j.rf.npr_db, 10000)],
     freqs |-> [uplink_freq_ghz    |-> j.freqs.uplink_freq_ghz[1],
                downlink_freq_ghz  |-> j.freqs.downlink_freq_ghz[1],
                noise_bandwidth_hz |-> j.freqs.noise_bandwidth_hz[1]],
     modcod_margin_db |-> OrDefault(j.modcod_margin_db, 100)]

-----------------------------------------------------------------------------
(* Direct calls of pick_best_modcod *)

Thresholds == { ModcodTable[i].required_esn0_db : i \in 1..Len(ModcodTable) }

AvailValues == { t + d : t \in Thresholds, d \in (0 - Delta)..Delta }

\* the server part of the state when only pick_best_modcod is exercised
Slots == 1..MaxRequests

ServerIdle ==
    /\ pc = [r \in Slots |-> "idle"]
    /\ req = [r \in Slots |-> None]
    /\ frame = [r \in Slots |-> None]
    /\ resp = [r \in Slots |-> None]

InitPick ==
    /\ DVB_S2_MODCODS = ModcodTable
    /\ ServerIdle
    /\ available_esn0_db \in AvailValues
    /\ best = None
    /\ pick_pc = "call"

PickCall ==
    /\ pick_pc = "call"
    /\ best' = pick_best_modcod(available_esn0_db)
    /\ pick_pc' = "returned"
    /\ UNCHANGED <<DVB_S2_MODCODS, pc, req, frame, resp, available_esn0_db>>

NextPick == PickCall

SpecPick == InitPick /\ [][NextPick]_vars

-----------------------------------------------------------------------------
(* The endpoint POST /rf/cni: compute_cni, rf.py lines 219-293 *)

\* line 261: the C/I of the uplink is the NPR of terminal 1
UplinkCI(rq) == rq.user1.npr_db

\* line 276 reading the NPR of terminal 2 instead
DownlinkCIFromUser2(rq) == rq.user2.npr_db

\* line 276: the C/I of the downlink is the NPR of the satellite
DownlinkCI(rq) == rq.rf.npr_db

\* line 283 with the design margin added instead of subtracted
AvailableEsn0Added(total_cni_db, rq) == total_cni_db + rq.modcod_margin_db

\* line 283
AvailableEsn0(total_cni_db, rq) == total_cni_db - rq.modcod_margin_db

\* the locals of compute_cni before its first statement; `error` names the
\* exception that ended the handler, "" while it runs
EntryFrame ==
    [error |-> "",
     d_uplink_km |-> 0, d_downlink_km |-> 0,
     fspl_uplink_db |-> 0, fspl_downlink_db |-> 0,
     cn0_uplink_dbhz |-> 0, cn_uplink_db |-> 0, cni_uplink_db |-> 0,
     cn0_downlink_dbhz |-> 0, cn_downlink_db |-> 0, cni_downlink_db |-> 0,
     total_cni_db |-> 0, available_esn0_db |-> 0, best_modcod |-> None]

\* `name = <call>`: the local is assigned unless the call raised, or the
\* handler has ended already
Assign(f, name, result) ==
    IF f.error # "" THEN f
    ELSE IF result.error # "" THEN [f EXCEPT !.error = result.error]
    ELSE [f EXCEPT ![name] = result.value]

\* lines 233-242
SlantRanges(rq, f) ==
    [f EXCEPT
       !.d_uplink_km =
           geo_slant_range_km(rq.user1.location.latitude_deg,
                              rq.user1.location.longitude_deg,
                              rq.geometry.satellite_longitude_deg),
       !.d_downlink_km =
           geo_slant_range_km(rq.user2.location.latitude_deg,
                              rq.user2.location.longitude_deg,
                              rq.geometry.satellite_longitude_deg)]

\* line 244
UplinkPathLoss(rq, f) ==
    Assign(f, "fspl_uplink_db", fspl_db(f.d_uplink_km, rq.freqs.uplink_freq_ghz))

\* line 245
DownlinkPathLoss(rq, f) ==
    Assign(f, "fspl_downlink_db",
           fspl_db(f.d_downlink_km, rq.freqs.downlink_freq_ghz))

\* lines 249-256
UplinkCn0(rq, f) ==
    Assign(f, "cn0_uplink_dbhz",
           Return(cn0_dbhz_from_eirp_gt(rq.user1.eirp_dbw, rq.rf.uplink_gt_dbk,
                                        f.fspl_uplink_db,
                                        rq.rf.uplink_impl_margin_db)))

\* line 257
UplinkCn(rq, f) ==
    Assign(f, "cn_uplink_db",
           cn_db_from_cn0(f.cn0_uplink_dbhz, rq.freqs.noise_bandwidth_hz))

\* line 261
UplinkCni(rq, f) ==
    Assign(f, "cni_uplink_db", combine_cn_linear(f.cn_uplink_db, UplinkCI(rq)))

\* lines 265-272
DownlinkCn0(rq, f) ==
    Assign(f, "cn0_downlink_dbhz",
           Return(cn0_dbhz_from_eirp_gt(rq.rf.downlink_eirp_dbw, rq.user2.gt_dbk,
                                        f.fspl_downlink_db,
                                        rq.rf.downlink_impl_margin_db)))

\* line 273
DownlinkCn(rq, f) ==
    Assign(f, "cn_downlink_db",
           cn_db_from_cn0(f.cn0_downlink_dbhz, rq.freqs.noise_bandwidth_hz))

\* line 276
DownlinkCni(rq, f) ==
    Assign(f, "cni_downlink_db",
           combine_cn_linear(f.cn_downlink_db, DownlinkCI(rq)))

\* line 280
TotalCni(rq, f) ==
    Assign(f, "total_cni_db",
           combine_cn_linear(f.cni_uplink_db, f.cni_downlink_db))

\* line 283
Available(rq, f) ==
    Assign(f, "available_esn0_db", Return(AvailableEsn0(f.total_cni_db, rq)))

\* line 284
BestModcod(rq, f) ==
    Assign(f, "best_modcod", Return(pick_best_modcod(f.available_esn0_db)))

\* lines 286-293
CniResponse(f) ==
    [uplink_cni_db     |-> f.cni_uplink_db,
     downlink_cni_db   |-> f.cni_downlink_db,
     total_cni_db      |-> f.total_cni_db,
     uplink_cn0_dbhz   |-> f.cn0_uplink_dbhz,
     downlink_cn0_dbhz |-> f.cn0_downlink_dbhz,
     suggested_modcod  |-> f.best_modcod]

\* the handler on a validated request, statement by statement: its locals
\* when it returned or raised
compute_cni(rq) ==
    BestModcod(rq, Available(rq, TotalCni(rq,
        DownlinkCni(rq, DownlinkCn(rq, DownlinkCn0(rq,
            UplinkCni(rq, UplinkCn(rq, UplinkCn0(rq,
                DownlinkPathLoss(rq, UplinkPathLoss(rq,
                    SlantRanges(rq, EntryFrame))))))))))))

Init ==
    /\ DVB_S2_MODCODS = ModcodTable
    /\ ServerIdle
    /\ available_esn0_db = 0
    /\ best = None
    /\ pick_pc = "idle"

\* a client posts a body
Post(r, body) ==
    /\ pc[r] = "idle"
    /\ pc' = [pc EXCEPT ![r] = "received"]
    /\ req' = [req EXCEPT ![r] = Some(body)]
    /\ UNCHANGED <<DVB_S2_MODCODS, frame, resp, available_esn0_db, best, pick_pc>>

\* a handler that consumes the table: the last entry is popped
TableAfterPop(table) == SubSeq(table, 1, Len(table) - 1)

\* the module-level table after a request was handled: the handler only
\* reads it
TableAfter(table) == table

\* the route runs on the request of slot r: the body is validated
\* (422 when it is not a CniRequest), the handler runs without awaiting
\* anything, and an exception of the handler is answered with 500
HandleCni(r) ==
    /\ pc[r] = "received"
    /\ pc' = [pc EXCEPT ![r] = "done"]
    /\ IF ~ ValidBody(req[r][1])
       THEN /\ resp' = [resp EXCEPT ![r] =
                           Some([status |-> 422, error |-> "RequestValidationError",
                                 body |-> None])]
            /\ frame' = frame
            /\ DVB_S2_MODCODS' = DVB_S2_MODCODS
       ELSE LET f == compute_cni(CniRequest(req[r][1]))
            IN  /\ resp' = [resp EXCEPT ![r] =
                               IF f.error # ""
                               THEN Some([status |-> 500, error |-> f.error,
                                          body |-> None])
                               ELSE Some([status |-> 200, error |-> "",
                                          body |-> Some(CniResponse(f))])]
                /\ frame' = [frame EXCEPT ![r] =
                                IF f.error # "" THEN None ELSE Some(f)]
                /\ DVB_S2_MODCODS' = TableAfter(DVB_S2_MODCODS)
    /\ UNCHANGED <<req, available_esn0_db, best, pick_pc>>

Next ==
    \/ \E r \in Slots : \E body \in Bodies : Post(r, body)
    \/ \E r \in Slots : HandleCni(r)

Spec == Init /\ [][Next]_vars

-----------------------------------------------------------------------------
(* Properties of pick_best_modcod, checked under SpecPick *)

TableIndex == 1..Len(DVB_S2_MODCODS)

Returned == pick_pc = "returned"

\* C6: the MODCOD table is in ascending order of required Es/N0: each entry's
\* threshold is at most that of the entry after it.
TableSortedAscending ==
    \A i \in TableIndex : \A j \in TableIndex :
        j = i + 1 =>
            DVB_S2_MODCODS[i].required_esn0_db <= DVB_S2_MODCODS[j].required_esn0_db

\* C1: when some entry qualifies, the entry returned has the highest threshold
\* among the qualifying ones: no entry has a threshold that is at most the
\* available ratio and above the threshold of the entry returned.
ReturnsHighestQualifying ==
    (Returned /\ \E i \in TableIndex :
                    DVB_S2_MODCODS[i].required_esn0_db <= available_esn0_db)
    => /\ best # None
       /\ ~ \E i \in TableIndex :
              /\ DVB_S2_MODCODS[i].required_esn0_db <= available_esn0_db
              /\ DVB_S2_MODCODS[i].required_esn0_db > best[1].required_esn0_db

\* C3: the selection is monotone in the available ratio: when a lower ratio
\* e1 selects an entry, the ratio of the call selects one too, and its
\* threshold is at least the threshold selected for e1.
MonotoneSelection ==
    Returned =>
        \A e1 \in AvailValues :
            (e1 <= available_esn0_db /\ pick_best_modcod(e1) # None)
            => /\ best # None
               /\ pick_best_modcod(e1)[1].required_esn0_db
                      <= best[1].required_esn0_db

\* C3, witness: a call has returned an entry whose threshold is above the
\* one selected for some lower available ratio.
MonotoneSelectionWitness ==
    /\ Returned
    /\ best # None
    /\ \E e1 \in AvailValues :
          /\ e1 < available_esn0_db
          /\ pick_best_modcod(e1) # None
          /\ pick_best_modcod(e1)[1].required_esn0_db < best[1].required_esn0_db

\* The strategy section 9 of the specification calls equivalent to the scan:
\* find the first entry, in table order, whose threshold exceeds the
\* available ratio and step back one entry.
FirstExceeding(avail) ==
    { i \in TableIndex :
        /\ DVB_S2_MODCODS[i].required_esn0_db > avail
        /\ \A j \in TableIndex :
              j < i => DVB_S2_MODCODS[j].required_esn0_db <= avail }

InfoOf(i, avail) ==
    Some(ModcodInfo(DVB_S2_MODCODS[i].name,
                    DVB_S2_MODCODS[i].required_esn0_db,
                    avail - DVB_S2_MODCODS[i].required_esn0_db))

StepBackPick(avail) ==
    IF FirstExceeding(avail) = {} THEN InfoOf(Len(DVB_S2_MODCODS), avail)
    ELSE LET i == CHOOSE k \in FirstExceeding(avail) : TRUE
         IN  IF i = 1 THEN None ELSE InfoOf(i - 1, avail)

\* C9: the linear scan returns what the step-back strategy returns, for
\* every available ratio.
ScanEqualsStepBack ==
    Returned => best = StepBackPick(available_esn0_db)

-----------------------------------------------------------------------------
(* Properties of the endpoint, checked under Spec *)

Done(r) == pc[r] = "done"

\* slot r was answered 200 with a CniResponse
Answered(r) == Done(r) /\ resp[r][1].status = 200

RequestOf(r) == CniRequest(req[r][1])

ResponseOf(r) == resp[r][1].body[1]

\* C2: pick_best_modcod returns None exactly when the available ratio is
\* below the lowest threshold of the table, -2.35 dB: the suggested_modcod of
\* a response is None if and only if total_cni_db - modcod_margin_db < -2.35.
NoneIffBelowLowestThreshold ==
    \A r \in Slots :
        Answered(r) =>
            ( ResponseOf(r).suggested_modcod = None
              <=> ResponseOf(r).total_cni_db - RequestOf(r).modcod_margin_db
                      < 0 - 235 )

\* C2, witness: one response suggests nothing, 0.01 dB under the lowest
\* threshold, and another suggests an entry exactly on it.
NoneIffBelowLowestThresholdWitness ==
    \E r1 \in Slots : \E r2 \in Slots :
        /\ Answered(r1) /\ Answered(r2)
        /\ ResponseOf(r1).suggested_modcod = None
        /\ ResponseOf(r1).total_cni_db - RequestOf(r1).modcod_margin_db = 0 - 236
        /\ ResponseOf(r2).suggested_modcod # None
        /\ ResponseOf(r2).total_cni_db - RequestOf(r2).modcod_margin_db = 0 - 235

\* C4: the margin_db of a suggested MODCOD is (total_cni_db -
\* modcod_margin_db) - required_esn0_db, its name and threshold are an entry
\* of the table, and the margin is not negative.
SuggestedMargin ==
    \A r \in Slots :
        (Answered(r) /\ ResponseOf(r).suggested_modcod # None) =>
            LET m == ResponseOf(r).suggested_modcod[1]
            IN  /\ m.margin_db =
                      (ResponseOf(r).total_cni_db - RequestOf(r).modcod_margin_db)
                          - m.required_esn0_db
                /\ \E i \in TableIndex :
                      DVB_S2_MODCODS[i] = Entry(m.name, m.required_esn0_db)
                /\ m.margin_db >= 0

\* C4, witness: a response suggests a MODCOD with a positive margin, for a
\* request whose design margin is not zero.
SuggestedMarginWitness ==
    \E r \in Slots :
        /\ Answered(r)
        /\ ResponseOf(r).suggested_modcod # None
        /\ ResponseOf(r).suggested_modcod[1].margin_db > 0
        /\ RequestOf(r).modcod_margin_db # 0

\* a frequency or the bandwidth of the body is zero or negative
NonPositive(x) == x # None /\ x[1] <= 0

NonPositiveFreqs(j) ==
    \/ NonPositive(j.freqs.uplink_freq_ghz)
    \/ NonPositive(j.freqs.downlink_freq_ghz)
    \/ NonPositive(j.freqs.noise_bandwidth_hz)

\* C5: a request whose uplink frequency, downlink frequency or noise
\* bandwidth is not strictly positive is rejected with a client error, and
\* never ends in an unhandled failure of the computation.
NonPositiveRejected ==
    \A r \in Slots :
        (Done(r) /\ NonPositiveFreqs(req[r][1])) => resp[r][1].status = 422

RequestsIndependent ==
    /\ DVB_S2_MODCODS = ModcodTable
    /\ \A r1 \in Slots : \A r2 \in Slots :
          (Done(r1) /\ Done(r2) /\ req[r1] = req[r2]) => resp[r1] = resp[r2]

\* C8, witness: two slots posted the same body and were both answered 200,
\* one after the other.
RequestsIndependentWitness ==
    \E r1 \in Slots : \E r2 \in Slots :
        /\ r1 # r2
        /\ Answered(r1) /\ Answered(r2)
        /\ req[r1] = req[r2]
        /\ ResponseOf(r1).suggested_modcod # None

\* the bodies are equal but for user1.gt_dbk, user2.eirp_dbw and
\* user2.npr_db
DifferOnlyInUnused(j1, j2) ==
    [j1 EXCEPT !.user1.gt_dbk = j2.user1.gt_dbk,
               !.user2.eirp_dbw = j2.user2.eirp_dbw,
               !.user2.npr_db = j2.user2.npr_db] = j2

\* C10: requests that differ only in user1.gt_dbk, user2.eirp_dbw or
\* user2.npr_db get responses that are equal in every field.
UnusedFieldsIgnored ==
    \A r1 \in Slots : \A r2 \in Slots :
        (Done(r1) /\ Done(r2) /\ DifferOnlyInUnused(req[r1][1], req[r2][1]))
        => resp[r1] = resp[r2]

\* C10, witness: two answered requests that differ in user2.npr_db and in
\* nothing that compute_cni reads.
UnusedFieldsIgnoredWitness ==
    \E r1 \in Slots : \E r2 \in Slots :
        /\ Answered(r1) /\ Answered(r2)
        /\ DifferOnlyInUnused(req[r1][1], req[r2][1])
        /\ req[r1][1].user2.npr_db # req[r2][1].user2.npr_db

=============================================================================
